---- MODULE Spec2Model ----
(***************************************************************************)
(* LLM-Evaluation: the evaluation orchestrator (EvaluationEngine) and its  *)
(* metrics aggregation, modelled over the three tables it writes and the   *)
(* SQLAlchemy session of each run_evaluation call.                         *)
(*                                                                         *)
(* Numbers.  Floats are modelled exactly: a score is an integer number of  *)
(* hundredths (0.85 is 85), a latency is an integer number of ms, a cost   *)
(* is an integer number of micro-dollars (cost_per_1k_tokens is kept in    *)
(* thousandths of a dollar, so tokens/1000 * cost_per_1k_tokens is         *)
(* tokens * cost_per_1k micro-dollars), and a quotient is the pair         *)
(* [n, d] compared by cross-multiplication.                                *)
(*                                                                         *)
(* Optional values.  A nullable column or a Python None is <<>>, a value v *)
(* is <<v>>.                                                               *)
(***************************************************************************)
EXTENDS Integers, Sequences, FiniteSets, TLC

\* Number of run_evaluation calls made during a behaviour.
MaxRuns == 2

None == <<>>
Some(v) == <<v>>

\* Python truthiness of an Optional[str]: None and "" are both falsy.
Truthy(opt) == opt # None /\ opt[1] # ""

Rat(n, d) == [n |-> n, d |-> d]
RatEq(a, b) == a.n * b.d = b.n * a.d
RatLt(a, b) == a.n * b.d < b.n * a.d

RECURSIVE SumSeq(_)
SumSeq(s) == IF s = <<>> THEN 0 ELSE Head(s) + SumSeq(Tail(s))

RECURSIVE SeqOfSet(_)
\* The elements of a set of integers in ascending order (primary-key order).
SeqOfSet(S) ==
    IF S = {} THEN <<>>
    ELSE LET m == CHOOSE x \in S : \A y \in S : x <= y
         IN <<m>> \o SeqOfSet(S \ {m})

Range(s) == {s[i] : i \in DOMAIN s}

(***************************************************************************)
(* The catalog: rows of llm_models and test_cases.  Neither table is       *)
(* written by the engine.  provider is a free string column ("openai,      *)
(* anthropic, local"), category a free string column, expected_output is   *)
(* nullable.                                                               *)
(***************************************************************************)
LLMModel ==
    { [id |-> 1, provider |-> "openai", cost_per_1k_tokens |-> 30, is_active |-> TRUE],
      [id |-> 2, provider |-> "mock",   cost_per_1k_tokens |-> 1,  is_active |-> TRUE],
      [id |-> 3, provider |-> "local",  cost_per_1k_tokens |-> 0,  is_active |-> TRUE],
      [id |-> 4, provider |-> "anthropic", cost_per_1k_tokens |-> 15, is_active |-> FALSE],
      [id |-> 5, provider |-> "anthropic", cost_per_1k_tokens |-> 15, is_active |-> TRUE] }

TestCase ==
    { [id |-> 1, category |-> "qa", input_chars |-> 80, expected_output |-> Some("ref")],
      [id |-> 2, category |-> "qa", input_chars |-> 80, expected_output |-> None],
      [id |-> 3, category |-> "summarization", input_chars |-> 600,
         expected_output |-> Some("ref")],
      [id |-> 4, category |-> "coding", input_chars |-> 80, expected_output |-> Some("ref")],
      [id |-> 5, category |-> "summarization", input_chars |-> 2000,
         expected_output |-> Some("ref")],
      [id |-> 6, category |-> "reasoning", input_chars |-> 80,
         expected_output |-> Some("ref")] }

ModelById(id) == CHOOSE m \in LLMModel : m.id = id
TestCaseById(id) == CHOOSE t \in TestCase : t.id = id

(***************************************************************************)
(* Model outputs.  A completion text is represented by the measurements    *)
(* the scorers take of it.                                                 *)
(***************************************************************************)
EmptyContent ==
    [text |-> "", chars |-> 0, overlap_input |-> 0, overlap_expected |-> 0,
     structure_count |-> 0, logical_count |-> 0, qmark |-> FALSE]

Contents ==
    { [text |-> "terse", chars |-> 40, overlap_input |-> 10, overlap_expected |-> 40,
       structure_count |-> 0, logical_count |-> 1, qmark |-> FALSE],
      [text |-> "full", chars |-> 300, overlap_input |-> 40, overlap_expected |-> 80,
       structure_count |-> 3, logical_count |-> 5, qmark |-> FALSE] }

\* What a backend can answer to one prompt: a completion text and the
\* wall-clock time the call took, in ms.
Completions ==
    { [content |-> c, elapsed |-> IF c.text = "terse" THEN 100 ELSE 300] : c \in Contents }

\* Wall-clock time after which a backend call can fail, in ms.
FailureLatencies == {200}

(***************************************************************************)
(* llm_providers                                                           *)
(***************************************************************************)
RegisteredProviders == {"openai", "anthropic", "mock"}

\* BaseLLMProvider.calculate_cost, in micro-dollars.
calculate_costFlat(model, tokens_used) == model.cost_per_1k_tokens
calculate_cost(model, tokens_used) == tokens_used * model.cost_per_1k_tokens

\* estimate_tokens / the mock token estimation of each provider.
estimate_tokens(model, chars) ==
    IF model.provider = "anthropic" THEN (chars * 2) \div 7 ELSE chars \div 4

\* BaseLLMProvider._create_response
_create_response(model, content, tokens_used, elapsed, error) ==
    [content |-> content, tokens_used |-> tokens_used, response_time_ms |-> elapsed,
     cost_usd |-> IF Truthy(error) THEN 0 ELSE calculate_cost(model, tokens_used),
     error |-> error]

\* MockProvider._generate_mock_content: a fixed template text.
_generate_mock_content == CHOOSE c \in Contents : c.text = "full"

\* The LLMResponse values generate_completion can return for one prompt.
\* The mock provider answers with its template and never fails; OpenAI and
\* Anthropic answer with what the backend sends (a text other than the
\* mock provider's template), and catch every backend exception to return
\* it as a response carrying the error.
generate_completion(model, test_case) ==
    LET answers == IF model.provider = "mock"
                   THEN {a \in Completions : a.content = _generate_mock_content}
                   ELSE {a \in Completions : a.content # _generate_mock_content}
        ok == { _create_response(model, a.content,
                    estimate_tokens(model, test_case.input_chars + a.content.chars),
                    a.elapsed, None)
                : a \in answers }
        failed == { _create_response(model, EmptyContent, 0, l,
                        Some("API error")) : l \in FailureLatencies }
    IN IF model.provider = "mock" THEN ok ELSE ok \cup failed

(***************************************************************************)
(* agents.evaluator_agents                                                 *)
(***************************************************************************)
Min(a, b) == IF a < b THEN a ELSE b

\* EvaluatorAgent._extract_score applied to "Score: x.y\nFeedback: ...",
\* where score10 is ten times the number printed; result in hundredths.
_extract_scoreUnscaled(score10) == score10 * 10
_extract_score(score10) ==
    IF score10 <= 10 THEN score10 * 10
    ELSE IF score10 <= 100 THEN score10
    ELSE score10 \div 10

Raised(msg) == [raised |-> TRUE, message |-> msg]
Scored(score10) == [raised |-> FALSE, score |-> _extract_score(score10)]

SummarizationEvaluator(test_case, content) ==
    IF test_case.input_chars = 0 THEN Raised("division by zero")
    ELSE LET base == IF content.chars * 10 < 2 * test_case.input_chars THEN 85
                     ELSE IF content.chars * 10 < 4 * test_case.input_chars THEN 75
                     ELSE 60
             bonus == IF content.overlap_input > 30 THEN 10 ELSE 0
         IN Scored(Min(base + bonus, 100))

QAEvaluator(test_case, content) ==
    IF test_case.expected_output = None
    THEN Raised("'NoneType' object has no attribute 'lower'")
    ELSE IF Truthy(test_case.expected_output)
    THEN Scored(IF content.overlap_expected > 70 THEN 90
                ELSE IF content.overlap_expected > 50 THEN 75
                ELSE 60)
    ELSE Scored(IF content.chars > 50 /\ ~content.qmark THEN 70 ELSE 50)

ReasoningEvaluator(test_case, content) ==
    LET s1 == IF content.structure_count >= 3 THEN 20
              ELSE IF content.structure_count >= 1 THEN 10 ELSE 0
        s2 == IF content.logical_count >= 5 THEN 20
              ELSE IF content.logical_count >= 2 THEN 10 ELSE 0
        s3 == IF content.chars > 200 THEN 10 ELSE 0
    IN Scored(Min(50 + s1 + s2 + s3, 100))

\* EvaluationEngine.evaluators
evaluators == {"summarization", "qa", "reasoning"}

evaluate_response(test_case, content) ==
    CASE test_case.category = "summarization" -> SummarizationEvaluator(test_case, content)
      [] test_case.category = "qa" -> QAEvaluator(test_case, content)
      [] test_case.category = "reasoning" -> ReasoningEvaluator(test_case, content)

(***************************************************************************)
(* State.  The three tables hold committed rows in insertion order (a      *)
(* run's id is its index in evaluation_runs).  Every run_evaluation call   *)
(* c has its own session (SessionLocal(), autoflush off): session_new[c]   *)
(* are the objects it has added but not yet flushed, which no query sees.  *)
(***************************************************************************)
VARIABLES
    evaluation_runs,      \* table: sequence of [status]
    evaluation_results,   \* table: sequence of EvaluationResult rows
    performance_metrics,  \* table: sequence of PerformanceMetrics rows
    pc,                   \* per call: "idle", "pairs", "aggregate", "returned", "raised"
    request,              \* per call: the arguments of run_evaluation
    eval_run,             \* per call: eval_run.id
    models,               \* per call: the resolved models (ids, in query order)
    test_cases,           \* per call: the resolved test cases (ids, in query order)
    all_results,          \* per call: the list all_results
    session_new,          \* per call: pending EvaluationResult objects of db
    extracted             \* unit level only: the last text given to _extract_score
                          \* and the score it returned

vars == <<evaluation_runs, evaluation_results, performance_metrics, pc, request,
          eval_run, models, test_cases, all_results, session_new, extracted>>

Calls == 1..MaxRuns

\* The argument lists callers pass to run_evaluation.
Requests ==
    { [model_ids |-> <<1, 2>>, test_case_ids |-> Some(<<3>>), categories |-> None],
      [model_ids |-> <<2>>, test_case_ids |-> Some(<<1, 2>>), categories |-> None],
      [model_ids |-> <<2>>, test_case_ids |-> Some(<<2, 3>>), categories |-> Some(<<>>)],
      [model_ids |-> <<2, 3>>, test_case_ids |-> Some(<<>>),
         categories |-> Some(<<"coding">>)],
      [model_ids |-> <<4>>, test_case_ids |-> None, categories |-> None],
      [model_ids |-> <<1>>, test_case_ids |-> Some(<<3>>), categories |-> Some(<<"qa">>)],
      [model_ids |-> <<2>>, test_case_ids |-> Some(<<3, 5>>), categories |-> None],
      [model_ids |-> <<4, 5>>, test_case_ids |-> Some(<<1>>), categories |-> None] }

\* Python truthiness of an Optional[List]: None and [] are both falsy.
TruthyList(opt) == opt # None /\ opt[1] # <<>>

\* db.commit(): the pending objects are inserted, in the order they were added.
FlushOverwriting(table, pending) == pending
Flush(table, pending) == table \o pending

\* eval_run.status = status, written by the next commit.
SetRunStatusDropped(table, id, status) == table
SetRunStatusAll(table, id, status) == [i \in DOMAIN table |-> [status |-> status]]
SetRunStatus(table, id, status) == [table EXCEPT ![id].status = status]

\* The models query of run_evaluation (engine.py 46-49).
ResolveModelsOfAnyStatus(req) ==
    SeqOfSet({m.id : m \in {x \in LLMModel : x.id \in Range(req.model_ids)}})
ResolveModels(req) ==
    SeqOfSet({m.id : m \in {x \in LLMModel : x.id \in Range(req.model_ids) /\ x.is_active}})

\* The test-case query of run_evaluation (engine.py 51-57).
ResolveTestCases(req) ==
    SeqOfSet({t.id : t \in {x \in TestCase :
        /\ TruthyList(req.test_case_ids) => x.id \in Range(req.test_case_ids[1])
        /\ TruthyList(req.categories) => x.category \in Range(req.categories[1])}})

\* run_evaluation reaches no await between the last provider call and its
\* return: while a call is there, the event loop runs no other call.
OthersSuspended(c) == \A b \in Calls \ {c} : pc[b] # "aggregate"

Init ==
    /\ evaluation_runs = <<>>
    /\ evaluation_results = <<>>
    /\ performance_metrics = <<>>
    /\ pc = [c \in Calls |-> "idle"]
    /\ request = [c \in Calls |-> None]
    /\ eval_run = [c \in Calls |-> None]
    /\ models = [c \in Calls |-> <<>>]
    /\ test_cases = [c \in Calls |-> <<>>]
    /\ all_results = [c \in Calls |-> <<>>]
    /\ session_new = [c \in Calls |-> <<>>]
    /\ extracted = None

(***************************************************************************)
(* run_evaluation up to the pair loop (engine.py 31-64, and 109-116 when   *)
(* the validation raises): the run row is added and committed first, then  *)
(* the models and test cases are resolved.                                 *)
(***************************************************************************)
StartRun(c, req) ==
    /\ pc[c] = "idle"
    /\ OthersSuspended(c)
    /\ \A b \in Calls : b < c => pc[b] # "idle"
    /\ LET id == Len(evaluation_runs) + 1
           created == Append(evaluation_runs, [status |-> "running"])
           ms == ResolveModels(req)
           ts == ResolveTestCases(req)
       IN /\ request' = [request EXCEPT ![c] = Some(req)]
          /\ eval_run' = [eval_run EXCEPT ![c] = Some(id)]
          /\ models' = [models EXCEPT ![c] = ms]
          /\ test_cases' = [test_cases EXCEPT ![c] = ts]
          /\ IF ms = <<>> \/ ts = <<>>
             THEN /\ evaluation_runs' = SetRunStatus(created, id, "failed")
                  /\ pc' = [pc EXCEPT ![c] = "raised"]
             ELSE /\ evaluation_runs' = created
                  /\ pc' = [pc EXCEPT ![c] = "pairs"]
    /\ UNCHANGED <<evaluation_results, performance_metrics, all_results, session_new,
                   extracted>>

(***************************************************************************)
(* _evaluate_single_case (engine.py 118-173): what one attempt of a pair   *)
(* can come to.  Either an exception leaves the method before any row is   *)
(* added, or the row built from the provider's response is added and       *)
(* committed.                                                              *)
(***************************************************************************)
EvaluationResultOfNextRun(run_id, model, test_case, output, score, time, tokens, cost, error) ==
    [evaluation_run_id |-> run_id + 1, model_id |-> model.id,
     test_case_id |-> test_case.id, model_output |-> output, accuracy_score |-> score,
     response_time_ms |-> time, tokens_used |-> tokens, cost_usd |-> cost,
     error_message |-> error]
EvaluationResult(run_id, model, test_case, output, score, time, tokens, cost, error) ==
    [evaluation_run_id |-> run_id, model_id |-> model.id, test_case_id |-> test_case.id,
     model_output |-> output, accuracy_score |-> score, response_time_ms |-> time,
     tokens_used |-> tokens, cost_usd |-> cost, error_message |-> error]

_evaluate_single_case(run_id, model, test_case) ==
    IF model.provider \notin RegisteredProviders
    THEN {Raised("Unknown provider type")}
    ELSE { IF test_case.category \notin evaluators
           THEN Raised("No evaluator found for category")
           ELSE LET evaluation == evaluate_response(test_case, llm_response.content)
                IN IF evaluation.raised THEN evaluation
                   ELSE [raised |-> FALSE,
                         result |-> EvaluationResult(run_id, model, test_case,
                                        llm_response.content.text, evaluation.score,
                                        llm_response.response_time_ms,
                                        llm_response.tokens_used, llm_response.cost_usd,
                                        llm_response.error)]
           : llm_response \in generate_completion(model, test_case) }

\* The row the except branch of the pair loop builds (engine.py 78-88).
error_resultUnmarked(run_id, model, test_case, message) ==
    EvaluationResult(run_id, model, test_case, "", 0, 0, 0, 0, None)
error_result(run_id, model, test_case, message) ==
    EvaluationResult(run_id, model, test_case, "", 0, 0, 0, 0, Some(message))

\* db.add(error_result) in the except branch: added, not committed.
AddErrorResultDropped(pending, row) == pending
AddErrorResult(pending, row) == Append(pending, row)

\* The pair the loop is at: all_results holds one entry per pair done.
PairsOf(c) == Len(models[c]) * Len(test_cases[c])
CurrentModel(c) == ModelById(models[c][(Len(all_results[c]) \div Len(test_cases[c])) + 1])
CurrentTestCase(c) ==
    TestCaseById(test_cases[c][(Len(all_results[c]) % Len(test_cases[c])) + 1])

(***************************************************************************)
(* One iteration of the pair loop (engine.py 68-90).                       *)
(***************************************************************************)
EvaluatePair(c) ==
    /\ pc[c] = "pairs"
    /\ OthersSuspended(c)
    /\ Len(all_results[c]) < PairsOf(c)
    /\ \E attempt \in _evaluate_single_case(eval_run[c][1], CurrentModel(c),
                                            CurrentTestCase(c)) :
          IF attempt.raised
          THEN LET row == error_result(eval_run[c][1], CurrentModel(c),
                                       CurrentTestCase(c), attempt.message)
               IN /\ session_new' = [session_new EXCEPT ![c] = AddErrorResult(@, row)]
                  /\ all_results' = [all_results EXCEPT ![c] = Append(@, row)]
                  /\ UNCHANGED evaluation_results
          ELSE /\ evaluation_results' =
                      Flush(evaluation_results, Append(session_new[c], attempt.result))
               /\ session_new' = [session_new EXCEPT ![c] = <<>>]
               /\ all_results' = [all_results EXCEPT ![c] = Append(@, attempt.result)]
    /\ pc' = [pc EXCEPT ![c] =
                IF Len(all_results[c]) + 1 = PairsOf(c) THEN "aggregate" ELSE "pairs"]
    /\ UNCHANGED <<evaluation_runs, performance_metrics, request, eval_run, models,
                   test_cases, extracted>>

(***************************************************************************)
(* _generate_performance_metrics (engine.py 175-278).  The results query   *)
(* reads the committed rows of the run only: the session does not flush    *)
(* before a query, so rows still pending in session_new are not among its  *)
(* results.                                                                *)
(***************************************************************************)
RunResultsOfAnyRun(run_id, table) == table
RunResults(run_id, table) == SelectSeq(table, LAMBDA r : r.evaluation_run_id = run_id)

CategoryOf(result) == TestCaseById(result.test_case_id).category

RECURSIVE GroupKeys(_, _)
\* The keys of model_category_stats, in the order the dict first gets them.
GroupKeys(results, seen) ==
    IF results = <<>> THEN <<>>
    ELSE LET key == <<Head(results).model_id, CategoryOf(Head(results))>>
         IN IF key \in seen THEN GroupKeys(Tail(results), seen)
            ELSE <<key>> \o GroupKeys(Tail(results), seen \cup {key})

FieldOfFirst(rows, f) == [i \in DOMAIN rows |-> rows[1][f]]
Field(rows, f) == [i \in DOMAIN rows |-> rows[i][f]]

\* One PerformanceMetrics object from the results of its group (engine.py
\* 215-238 for a category, 246-271 for "overall": the same computation).
PerformanceMetricsUnguarded(run_id, model_id, category, group) ==
    LET successful == SelectSeq(group, LAMBDA r : ~Truthy(r.error_message))
        n == Len(successful)
    IN [evaluation_run_id |-> run_id, model_id |-> model_id, category |-> category,
        avg_accuracy |-> Rat(SumSeq(Field(successful, "accuracy_score")), n),
        avg_response_time |-> Rat(SumSeq(Field(successful, "response_time_ms")), n),
        total_cost |-> SumSeq(Field(successful, "cost_usd")),
        total_tokens |-> SumSeq(Field(successful, "tokens_used")),
        success_rate |-> Rat(n, Len(group)),
        accuracy_rank |-> None, speed_rank |-> None, cost_rank |-> None,
        overall_rank |-> None]
PerformanceMetrics(run_id, model_id, category, group) ==
    LET successful == SelectSeq(group, LAMBDA r : ~Truthy(r.error_message))
        n == Len(successful)
    IN [evaluation_run_id |-> run_id, model_id |-> model_id, category |-> category,
        avg_accuracy |-> IF n > 0 THEN Rat(SumSeq(Field(successful, "accuracy_score")), n)
                         ELSE Rat(0, 1),
        avg_response_time |->
            IF n > 0 THEN Rat(SumSeq(Field(successful, "response_time_ms")), n)
            ELSE Rat(0, 1),
        total_cost |-> IF n > 0 THEN SumSeq(Field(successful, "cost_usd")) ELSE 0,
        total_tokens |-> IF n > 0 THEN SumSeq(Field(successful, "tokens_used")) ELSE 0,
        success_rate |-> Rat(n, Len(group)),
        accuracy_rank |-> None, speed_rank |-> None, cost_rank |-> None,
        overall_rank |-> None]

\* The metric objects the method adds to the session, in order.
_generate_performance_metrics(run_id, run_models, table) ==
    LET results == RunResults(run_id, table)
        keys == GroupKeys(results, {})
        per_category ==
            [k \in DOMAIN keys |->
                PerformanceMetrics(run_id, keys[k][1], keys[k][2],
                    SelectSeq(results, LAMBDA r : /\ r.model_id = keys[k][1]
                                                   /\ CategoryOf(r) = keys[k][2]))]
        with_results ==
            SelectSeq(run_models, LAMBDA m : \E i \in DOMAIN results : results[i].model_id = m)
        overall ==
            [k \in DOMAIN with_results |->
                PerformanceMetrics(run_id, with_results[k], "overall",
                    SelectSeq(results, LAMBDA r : r.model_id = with_results[k]))]
    IN per_category \o overall

(***************************************************************************)
(* _calculate_rankings (engine.py 280-326), on the rows its metrics query  *)
(* returns: the committed rows of the run.  sorted() is stable, also with  *)
(* reverse=True, so the 1-based position of row i among its category is    *)
(* one more than the number of rows that sort strictly before it or tie    *)
(* with it and precede it in the list.                                     *)
(***************************************************************************)
PositionTiesReversed(i, peers, before) ==
    1 + Cardinality({j \in peers :
            j # i /\ (<<j, i>> \in before \/ (<<i, j>> \notin before /\ j > i))})
Position(i, peers, before) ==
    1 + Cardinality({j \in peers :
            j # i /\ (<<j, i>> \in before \/ (<<i, j>> \notin before /\ j < i))})

_calculate_rankingsOfAnyRun(run_id, table) ==
    LET Peers(i) == {j \in DOMAIN table : table[j].category = table[i].category}
    IN [i \in DOMAIN table |->
          [table[i] EXCEPT !.accuracy_rank =
              Some(Position(i, Peers(i),
                  {p \in Peers(i) \X Peers(i) :
                      RatLt(table[p[2]].avg_accuracy, table[p[1]].avg_accuracy)}))]]
_calculate_rankings(run_id, table) ==
    LET Peers(i) == {j \in DOMAIN table : /\ table[j].evaluation_run_id = run_id
                                          /\ table[j].category = table[i].category}
        N(i) == Cardinality(Peers(i))
        \* the pairs <<a, b>> of a category where a sorts strictly before b
        Pairs(i) == Peers(i) \X Peers(i)
        accuracy_rank(i) ==
            Position(i, Peers(i),
                {p \in Pairs(i) : RatLt(table[p[2]].avg_accuracy, table[p[1]].avg_accuracy)})
        speed_rank(i) ==
            Position(i, Peers(i),
                {p \in Pairs(i) : RatLt(table[p[1]].avg_response_time,
                                        table[p[2]].avg_response_time)})
        cost_rank(i) ==
            Position(i, Peers(i),
                {p \in Pairs(i) : table[p[1]].total_cost < table[p[2]].total_cost})
        \* four times overall_score: the weights 0.5, 0.25, 0.25 are 2/4, 1/4, 1/4
        overall_score4(i) ==
            (N(i) - accuracy_rank(i) + 1) * 2 + (N(i) - speed_rank(i) + 1)
                + (N(i) - cost_rank(i) + 1)
        overall_rank(i) ==
            Position(i, Peers(i),
                {p \in Pairs(i) : overall_score4(p[1]) > overall_score4(p[2])})
    IN [i \in DOMAIN table |->
          IF table[i].evaluation_run_id # run_id THEN table[i]
          ELSE [table[i] EXCEPT !.accuracy_rank = Some(accuracy_rank(i)),
                                !.speed_rank = Some(speed_rank(i)),
                                !.cost_rank = Some(cost_rank(i)),
                                !.overall_rank = Some(overall_rank(i))]]

(***************************************************************************)
(* The end of run_evaluation when aggregation succeeds (engine.py 92-107): *)
(* the metrics are added, the rankings computed, one commit writes the     *)
(* session's pending objects, and the run is marked completed.             *)
(***************************************************************************)
Aggregate(c) ==
    /\ pc[c] = "aggregate"
    /\ LET id == eval_run[c][1]
           added == _generate_performance_metrics(id, models[c], evaluation_results)
           ranked == _calculate_rankings(id, performance_metrics)
       IN /\ performance_metrics' = Flush(ranked, added)
          /\ evaluation_results' = Flush(evaluation_results, session_new[c])
          /\ evaluation_runs' = SetRunStatus(evaluation_runs, id, "completed")
    /\ session_new' = [session_new EXCEPT ![c] = <<>>]
    /\ pc' = [pc EXCEPT ![c] = "returned"]
    /\ UNCHANGED <<request, eval_run, models, test_cases, all_results, extracted>>

\* The queries of the aggregation step, either of which can raise.
AggregationQueries == {"results", "metrics"}

(***************************************************************************)
(* The end of run_evaluation when a query of the aggregation step raises   *)
(* (engine.py 182 or 284, then 109-116): the handler marks the run failed  *)
(* and commits, which writes whatever the session holds at that point.     *)
(***************************************************************************)
AggregateFails(c) ==
    /\ pc[c] = "aggregate"
    /\ \E query \in AggregationQueries :
        LET id == eval_run[c][1]
            added == IF query = "results" THEN <<>>
                     ELSE _generate_performance_metrics(id, models[c], evaluation_results)
        IN /\ performance_metrics' = Flush(performance_metrics, added)
           /\ evaluation_results' = Flush(evaluation_results, session_new[c])
           /\ evaluation_runs' = SetRunStatus(evaluation_runs, id, "failed")
    /\ session_new' = [session_new EXCEPT ![c] = <<>>]
    /\ pc' = [pc EXCEPT ![c] = "raised"]
    /\ UNCHANGED <<request, eval_run, models, test_cases, all_results, extracted>>

Next ==
    \/ \E c \in Calls, req \in Requests : StartRun(c, req)
    \/ \E c \in Calls : EvaluatePair(c)
    \/ \E c \in Calls : Aggregate(c)
    \/ \E c \in Calls : AggregateFails(c)

Spec == Init /\ [][Next]_vars

(***************************************************************************)
(* Vocabulary of the properties.                                           *)
(***************************************************************************)
RunIds == DOMAIN evaluation_runs
StatusOf(r) == evaluation_runs[r].status
Started == {c \in Calls : pc[c] # "idle"}
\* The calls whose validation raised (no active model, or no test case).
Rejected == {c \in Started : models[c] = <<>> \/ test_cases[c] = <<>>}
\* The calls that have left run_evaluation after the pair loop.
Finished == {c \in Started \ Rejected : pc[c] \in {"returned", "raised"}}
MetricsOfRun(r) == {i \in DOMAIN performance_metrics :
                        performance_metrics[i].evaluation_run_id = r}
CategoryGroup(r, category) == {i \in MetricsOfRun(r) :
                                   performance_metrics[i].category = category}
RowsOfPair(r, m, t) == {i \in DOMAIN evaluation_results :
                            /\ evaluation_results[i].evaluation_run_id = r
                            /\ evaluation_results[i].model_id = m
                            /\ evaluation_results[i].test_case_id = t}
RankFields == {"accuracy_rank", "speed_rank", "cost_rank", "overall_rank"}
\* A row the except branch of the pair loop made (the providers' own error
\* text is "API error").
FromHandler(row) == row.error_message # None /\ row.error_message # Some("API error")

(***************************************************************************)
(* C1: in a completed run, each of the four rank fields, over the N rows   *)
(* of a category group, takes exactly the values 1..N, none missing.       *)
(* Violated: no rank is ever assigned, see Aggregate.                      *)
(***************************************************************************)
C1_RanksArePermutation ==
    \A r \in RunIds : StatusOf(r) = "completed" =>
        \A i \in MetricsOfRun(r), f \in RankFields :
            LET group == CategoryGroup(r, performance_metrics[i].category)
            IN {performance_metrics[j][f] : j \in group}
                   = {Some(k) : k \in 1..Cardinality(group)}

PairAt(c, k) ==
    [model |-> ModelById(models[c][((k - 1) \div Len(test_cases[c])) + 1]),
     test_case |-> TestCaseById(test_cases[c][((k - 1) % Len(test_cases[c])) + 1])]

RowsPairCanProduce(run_id, model, test_case) ==
    { IF a.raised THEN error_result(run_id, model, test_case, a.message) ELSE a.result
      : a \in _evaluate_single_case(run_id, model, test_case) }

(***************************************************************************)
(* C2: a pair whose attempt fails does not abort the run.  The loop is     *)
(* left only after every pair was attempted; what the pairs produced, in   *)
(* order, is exactly the run's committed rows followed by the session's    *)
(* pending ones, one row per pair; a run that has ended has exactly one    *)
(* committed row per pair; and each pair's row is one its own attempt can  *)
(* produce, whatever the other pairs did.                                  *)
(***************************************************************************)
C2_PairFailureIsolated ==
    \A c \in Started \ Rejected :
        LET r == eval_run[c][1] IN
        /\ pc[c] = "pairs" => Len(all_results[c]) < PairsOf(c)
        /\ pc[c] # "pairs" => Len(all_results[c]) = PairsOf(c)
        /\ RunResults(r, evaluation_results) \o session_new[c] = all_results[c]
        /\ \A k \in DOMAIN all_results[c] :
              LET p == PairAt(c, k)
              IN all_results[c][k] \in RowsPairCanProduce(r, p.model, p.test_case)
        /\ c \in Finished =>
              \A k \in 1..PairsOf(c) :
                  LET p == PairAt(c, k)
                  IN Cardinality(RowsOfPair(r, p.model.id, p.test_case.id)) = 1

\* A run has returned in which a pair that threw is followed by a pair
\* that succeeded, and another in which the pair that threw is the last.
C2_Witness ==
    /\ \E c \in Finished :
          /\ pc[c] = "returned"
          /\ \E k \in 1..(Len(all_results[c]) - 1) :
                /\ FromHandler(all_results[c][k])
                /\ all_results[c][k + 1].error_message = None
    /\ \E c \in Finished :
          /\ pc[c] = "returned"
          /\ FromHandler(all_results[c][Len(all_results[c])])

(***************************************************************************)
(* C3: every result row with an error message has empty output and zero    *)
(* score, latency, tokens and cost.  Violated by the rows built from a     *)
(* provider response that carries an error.                                *)
(***************************************************************************)
C3_FailedRowsAreZeroed ==
    \A i \in DOMAIN evaluation_results :
        LET row == evaluation_results[i] IN
        row.error_message # None =>
            /\ row.model_output = ""
            /\ row.accuracy_score = 0
            /\ row.response_time_ms = 0
            /\ row.tokens_used = 0
            /\ row.cost_usd = 0

AllPairsHaveOneRow(c) ==
    \A k \in 1..PairsOf(c) :
        Cardinality(RowsOfPair(eval_run[c][1], PairAt(c, k).model.id,
                               PairAt(c, k).test_case.id)) = 1

MetricsGenerated(c) ==
    \A k \in 1..PairsOf(c) :
        \A category \in {PairAt(c, k).test_case.category, "overall"} :
            \E i \in CategoryGroup(eval_run[c][1], category) :
                performance_metrics[i].model_id = PairAt(c, k).model.id

(***************************************************************************)
(* C4: a run that passed validation is completed if and only if every pair *)
(* of its matrix has exactly one result row and its metrics rows exist     *)
(* (one per model and category evaluated, one "overall" per model).        *)
(***************************************************************************)
C4_CompletedIffAllPairsAndMetrics ==
    \A c \in Started \ Rejected :
        StatusOf(eval_run[c][1]) = "completed"
            <=> (AllPairsHaveOneRow(c) /\ MetricsGenerated(c))

(***************************************************************************)
(* C5: a call rejected by validation leaves no run row behind: the run     *)
(* table holds the runs of the accepted calls only.                        *)
(***************************************************************************)
C5_NoRunRowOnValidationFailure ==
    Len(evaluation_runs) = Cardinality(Started \ Rejected)

(***************************************************************************)
(* C6: when the aggregation step raises, the run is failed and none of its *)
(* metrics rows is persisted.                                              *)
(***************************************************************************)
C6_AggregationAllOrNothing ==
    \A c \in Finished : pc[c] = "raised" =>
        /\ StatusOf(eval_run[c][1]) = "failed"
        /\ MetricsOfRun(eval_run[c][1]) = {}

GroupRows(r, model_id, category) ==
    {i \in DOMAIN evaluation_results :
        /\ evaluation_results[i].evaluation_run_id = r
        /\ evaluation_results[i].model_id = model_id
        /\ CategoryOf(evaluation_results[i]) = category}

(***************************************************************************)
(* C7: in a completed run, the success_rate of every (model, category)     *)
(* metrics row is the number of the group's result rows without an error   *)
(* over the number of all the group's result rows.                         *)
(***************************************************************************)
C7_SuccessRateCountsAllRows ==
    \A r \in RunIds : StatusOf(r) = "completed" =>
        \A i \in MetricsOfRun(r) :
            LET g == performance_metrics[i]
                rows == GroupRows(r, g.model_id, g.category)
                ok == {j \in rows : ~Truthy(evaluation_results[j].error_message)}
            IN g.category # "overall" =>
                   RatEq(g.success_rate, Rat(Cardinality(ok), Cardinality(rows)))

(***************************************************************************)
(* C8: the status of a run row leaves "running" only for "completed" or    *)
(* "failed", and a completed or failed run keeps its status in every later *)
(* step of any call.                                                       *)
(***************************************************************************)
C8_StatusIsTerminal ==
    [][\A r \in RunIds :
          /\ r \in DOMAIN evaluation_runs'
          /\ StatusOf(r) \in {"completed", "failed"} =>
                 evaluation_runs'[r].status = StatusOf(r)
          /\ evaluation_runs'[r].status \in {StatusOf(r), "completed", "failed"}]_vars

\* The first call was rejected, so its run was failed before the second
\* call began; the second call has since run to completion.
C8_Witness ==
    /\ 1 \in Rejected /\ StatusOf(1) = "failed"
    /\ Len(evaluation_runs) > 1 /\ StatusOf(2) = "completed"

Points4(row, n) ==
    (n - row.accuracy_rank[1] + 1) * 2 + (n - row.speed_rank[1] + 1)
        + (n - row.cost_rank[1] + 1)

(***************************************************************************)
(* C9: in a completed run, overall_rank is a position 1..N of the category *)
(* group and orders its rows by descending points, points being            *)
(* (N-accuracy_rank+1)*0.5 + (N-speed_rank+1)*0.25 + (N-cost_rank+1)*0.25  *)
(* (compared here times four).                                             *)
(***************************************************************************)
C9_OverallRankOrdersByPoints ==
    \A r \in RunIds : StatusOf(r) = "completed" =>
        \A i \in MetricsOfRun(r) :
            LET a == performance_metrics[i]
                group == CategoryGroup(r, a.category)
                n == Cardinality(group)
            IN /\ a.overall_rank \in {Some(k) : k \in 1..n}
               /\ \A j \in group :
                     LET b == performance_metrics[j] IN
                     Points4(a, n) > Points4(b, n) => a.overall_rank[1] < b.overall_rank[1]

(***************************************************************************)
(* C10: in a completed run, accuracy_rank orders the rows of a category    *)
(* group by descending avg_accuracy.                                       *)
(***************************************************************************)
C10_AccuracyRankOrdersByAccuracy ==
    \A r \in RunIds : StatusOf(r) = "completed" =>
        \A i \in MetricsOfRun(r) :
            LET a == performance_metrics[i] IN
            \A j \in CategoryGroup(r, a.category) :
                LET b == performance_metrics[j] IN
                RatLt(b.avg_accuracy, a.avg_accuracy) =>
                    /\ a.accuracy_rank # None /\ b.accuracy_rank # None
                    /\ a.accuracy_rank[1] < b.accuracy_rank[1]

(***************************************************************************)
(* C11: in a completed run, speed_rank orders the rows of a category group *)
(* by ascending avg_response_time and cost_rank by ascending total_cost:   *)
(* a strictly lower value has a strictly smaller rank.                     *)
(***************************************************************************)
C11_SpeedAndCostRanksOrder ==
    \A r \in RunIds : StatusOf(r) = "completed" =>
        \A i \in MetricsOfRun(r) :
            LET a == performance_metrics[i] IN
            \A j \in CategoryGroup(r, a.category) :
                LET b == performance_metrics[j] IN
                /\ RatLt(a.avg_response_time, b.avg_response_time) =>
                       /\ a.speed_rank # None /\ b.speed_rank # None
                       /\ a.speed_rank[1] < b.speed_rank[1]
                /\ a.total_cost < b.total_cost =>
                       /\ a.cost_rank # None /\ b.cost_rank # None
                       /\ a.cost_rank[1] < b.cost_rank[1]

\* The result rows of a run that belong to one model.
ModelRows(r, model_id) ==
    {i \in DOMAIN evaluation_results :
        /\ evaluation_results[i].evaluation_run_id = r
        /\ evaluation_results[i].model_id = model_id}

\* The sum of a field over a set of result rows.
SumOver(rows, f) ==
    LET order == SeqOfSet(rows)
    IN SumSeq([k \in DOMAIN order |-> evaluation_results[order[k]][f]])

\* What a metrics row must hold when it is computed from the result rows
\* `rows`: means and sums over the rows without an error.
MeansOver(g, rows) ==
    LET ok == {j \in rows : ~Truthy(evaluation_results[j].error_message)}
        n == Cardinality(ok)
    IN IF n = 0
       THEN /\ RatEq(g.avg_accuracy, Rat(0, 1)) /\ RatEq(g.avg_response_time, Rat(0, 1))
            /\ g.total_cost = 0 /\ g.total_tokens = 0
       ELSE /\ RatEq(g.avg_accuracy, Rat(SumOver(ok, "accuracy_score"), n))
            /\ RatEq(g.avg_response_time, Rat(SumOver(ok, "response_time_ms"), n))
            /\ g.total_cost = SumOver(ok, "cost_usd")
            /\ g.total_tokens = SumOver(ok, "tokens_used")

(***************************************************************************)
(* C12: every model of a run that has ended has an "overall" metrics row,  *)
(* computed from all the result rows of the model in the run: means and    *)
(* sums over the successful ones, success_rate the successes over all of   *)
(* them.                                                                   *)
(***************************************************************************)
C12_OverallFromAllRows ==
    \A c \in Finished : pc[c] = "returned" =>
        \A k \in DOMAIN models[c] :
            LET r == eval_run[c][1]
                rows == ModelRows(r, models[c][k])
                ok == {j \in rows : ~Truthy(evaluation_results[j].error_message)}
                overall == {i \in CategoryGroup(r, "overall") :
                               performance_metrics[i].model_id = models[c][k]}
            IN /\ Cardinality(overall) = 1
               /\ \A i \in overall :
                     /\ MeansOver(performance_metrics[i], rows)
                     /\ RatEq(performance_metrics[i].success_rate,
                              Rat(Cardinality(ok), Cardinality(rows)))

\* Scenario A: a model at 0.01 dollars per 1k tokens and its two
\* successful summarization results (scores 0.8 and 0.6, 100 and 200 ms,
\* 50 and 70 tokens).
ScenarioA ==
    LET M == [id |-> 1, provider |-> "mock", cost_per_1k_tokens |-> 10, is_active |-> TRUE]
        t1 == [id |-> 1, category |-> "summarization"]
        t2 == [id |-> 2, category |-> "summarization"]
    IN << EvaluationResult(1, M, t1, "a", 80, 100, 50, calculate_cost(M, 50), None),
          EvaluationResult(1, M, t2, "b", 60, 200, 70, calculate_cost(M, 70), None) >>

(***************************************************************************)
(* C13: every (model, category) metrics row holds the mean score and mean  *)
(* latency of the group's successful result rows and the sums of their     *)
(* costs and tokens; Scenario A gives 0.7, 150 ms, 0.0012 dollars and a    *)
(* success_rate of 1.                                                      *)
(***************************************************************************)
C13_GroupMeansAndSums ==
    /\ \A i \in DOMAIN performance_metrics :
          LET g == performance_metrics[i] IN
          g.category # "overall" =>
              MeansOver(g, GroupRows(g.evaluation_run_id, g.model_id, g.category))
    /\ LET g == PerformanceMetrics(1, 1, "summarization", ScenarioA)
       IN /\ RatEq(g.avg_accuracy, Rat(70, 1))
          /\ RatEq(g.avg_response_time, Rat(150, 1))
          /\ g.total_cost = 1200
          /\ g.total_tokens = 120
          /\ RatEq(g.success_rate, Rat(1, 1))

\* A metrics row is persisted for a group with two successful results of
\* different scores and different token counts.
C13_Witness ==
    \E i \in DOMAIN performance_metrics :
        LET g == performance_metrics[i]
            rows == GroupRows(g.evaluation_run_id, g.model_id, g.category)
        IN /\ g.category # "overall"
           /\ \E j, k \in rows :
                 /\ evaluation_results[j].error_message = None
                 /\ evaluation_results[k].error_message = None
                 /\ evaluation_results[j].accuracy_score
                        # evaluation_results[k].accuracy_score
                 /\ evaluation_results[j].tokens_used # evaluation_results[k].tokens_used

\* The result rows a metrics row summarises.
RowsOfMetric(g) ==
    IF g.category = "overall" THEN ModelRows(g.evaluation_run_id, g.model_id)
    ELSE GroupRows(g.evaluation_run_id, g.model_id, g.category)

(***************************************************************************)
(* C14: in every metrics row no quotient has a zero denominator and        *)
(* success_rate lies in [0, 1]; when every result of the group succeeded   *)
(* success_rate is 1; when none did, success_rate, avg_accuracy,           *)
(* avg_response_time and total_cost are 0.                                 *)
(***************************************************************************)
C14_SuccessRateBounds ==
    \A i \in DOMAIN performance_metrics :
        LET g == performance_metrics[i]
            rows == RowsOfMetric(g)
            ok == {j \in rows : ~Truthy(evaluation_results[j].error_message)}
        IN /\ g.success_rate.d > 0 /\ g.avg_accuracy.d > 0 /\ g.avg_response_time.d > 0
           /\ 0 <= g.success_rate.n /\ g.success_rate.n <= g.success_rate.d
           /\ ok = rows => RatEq(g.success_rate, Rat(1, 1))
           /\ ok = {} => /\ g.success_rate.n = 0
                         /\ g.avg_accuracy.n = 0
                         /\ g.avg_response_time.n = 0
                         /\ g.total_cost = 0

\* One run has a group where no result succeeded and a group where every
\* result did.
C14_Witness ==
    \E i, j \in DOMAIN performance_metrics :
        LET g == performance_metrics[i]
            h == performance_metrics[j]
        IN /\ g.evaluation_run_id = h.evaluation_run_id
           /\ g.category = h.category
           /\ \A k \in RowsOfMetric(g) : Truthy(evaluation_results[k].error_message)
           /\ RowsOfMetric(g) # {}
           /\ g.success_rate.n = 0
           /\ \A k \in RowsOfMetric(h) : ~Truthy(evaluation_results[k].error_message)
           /\ RowsOfMetric(h) # {}
           /\ h.success_rate.n = h.success_rate.d

(***************************************************************************)
(* C15: the cost of every successful result row, whatever the provider of  *)
(* its model, is its own tokens_used / 1000 * cost_per_1k_tokens, here     *)
(* tokens_used * cost_per_1k_tokens micro-dollars.                         *)
(***************************************************************************)
C15_CostFromStoredTokens ==
    \A i \in DOMAIN evaluation_results :
        LET row == evaluation_results[i] IN
        row.error_message = None =>
            row.cost_usd = row.tokens_used * ModelById(row.model_id).cost_per_1k_tokens

\* Successful rows with a positive cost are persisted for a model of each
\* registered provider.
C15_Witness ==
    \A p \in RegisteredProviders :
        \E i \in DOMAIN evaluation_results :
            /\ ModelById(evaluation_results[i].model_id).provider = p
            /\ evaluation_results[i].error_message = None
            /\ evaluation_results[i].tokens_used > 0
            /\ evaluation_results[i].cost_usd > 0

\* The call whose step changes the state.
Acting(c) == pc'[c] # pc[c] \/ all_results'[c] # all_results[c]

(***************************************************************************)
(* C16: every call gets a run id of its own, also when its arguments are   *)
(* those of an earlier call; the rows a step adds belong to the run of the *)
(* call that takes the step; and no step modifies or deletes a result or   *)
(* metrics row that is already persisted.                                  *)
(***************************************************************************)
C16_RunsAreDisjoint ==
    [][/\ \A b, c \in Calls :
             (b # c /\ eval_run'[b] # None /\ eval_run'[c] # None)
                 => eval_run'[b] # eval_run'[c]
       /\ \A i \in DOMAIN evaluation_results :
             i \in DOMAIN evaluation_results'
                 /\ evaluation_results'[i] = evaluation_results[i]
       /\ \A i \in DOMAIN performance_metrics :
             i \in DOMAIN performance_metrics'
                 /\ performance_metrics'[i] = performance_metrics[i]
       /\ \A c \in Calls : Acting(c) =>
             /\ \A i \in DOMAIN evaluation_results' \ DOMAIN evaluation_results :
                   evaluation_results'[i].evaluation_run_id = eval_run'[c][1]
             /\ \A i \in DOMAIN performance_metrics' \ DOMAIN performance_metrics :
                   performance_metrics'[i].evaluation_run_id = eval_run'[c][1]]_vars

\* Two calls with the same arguments have both returned, each with result
\* and metrics rows under its own run id.
C16_Witness ==
    \E b, c \in Calls :
        /\ b # c /\ pc[b] = "returned" /\ pc[c] = "returned"
        /\ request[b] = request[c]
        /\ eval_run[b] # eval_run[c]
        /\ \A d \in {b, c} :
              /\ RunResults(eval_run[d][1], evaluation_results) # <<>>
              /\ MetricsOfRun(eval_run[d][1]) # {}

\* The rows of a call that a run of the same pairs with the same outcomes
\* has committed when it reaches the aggregation: all but the rows the
\* except branch added after the last successful pair.
CommittedAlone(c) ==
    LET last == {k \in DOMAIN all_results[c] : ~FromHandler(all_results[c][k])}
        n == IF last = {} THEN 0 ELSE CHOOSE k \in last : \A j \in last : j <= k
    IN SubSeq(all_results[c], 1, n)

\* The metrics rows the call persists when it is the only one to run.
MetricsAlone(c) ==
    Flush(_calculate_rankings(eval_run[c][1], <<>>),
          _generate_performance_metrics(eval_run[c][1], models[c], CommittedAlone(c)))

(***************************************************************************)
(* C17: whatever the interleaving of the calls, the metrics rows a run     *)
(* persists, rank fields included, are those the same pairs with the same  *)
(* outcomes give when the call runs alone.                                 *)
(***************************************************************************)
C17_MetricsIndependentOfOtherRuns ==
    \A c \in Finished :
        LET mine == SelectSeq(performance_metrics,
                        LAMBDA g : g.evaluation_run_id = eval_run[c][1])
        IN /\ pc[c] = "returned" => mine = MetricsAlone(c)
           /\ pc[c] = "raised" => mine \in {<<>>, MetricsAlone(c)}

\* Two calls that share a model and a test case have both returned with
\* metrics, and their result rows alternate in the table.
C17_Witness ==
    \E b, c \in Calls :
        /\ b # c /\ pc[b] = "returned" /\ pc[c] = "returned"
        /\ Range(models[b]) \cap Range(models[c]) # {}
        /\ Range(test_cases[b]) \cap Range(test_cases[c]) # {}
        /\ MetricsOfRun(eval_run[b][1]) # {} /\ MetricsOfRun(eval_run[c][1]) # {}
        /\ \E i, j, k \in DOMAIN evaluation_results :
              /\ i < j /\ j < k
              /\ evaluation_results[i].evaluation_run_id = eval_run[b][1]
              /\ evaluation_results[j].evaluation_run_id = eval_run[c][1]
              /\ evaluation_results[k].evaluation_run_id = eval_run[b][1]

(***************************************************************************)
(* C18: when a pair of a run is attempted, the run row is already in the   *)
(* table with status "running", and the row the pair produces carries the  *)
(* id of that run; every persisted result row references a persisted run.  *)
(***************************************************************************)
C18_RunRowBeforeProviderCalls ==
    [][/\ \A c \in Calls : all_results'[c] # all_results[c] =>
             /\ eval_run[c] # None
             /\ eval_run[c][1] \in RunIds
             /\ StatusOf(eval_run[c][1]) = "running"
             /\ all_results'[c][Len(all_results'[c])].evaluation_run_id = eval_run[c][1]
       /\ \A i \in DOMAIN evaluation_results' :
             evaluation_results'[i].evaluation_run_id \in RunIds]_vars

\* A run is still "running", has pairs left, and a result row of it is
\* already persisted.
C18_Witness ==
    \E c \in Calls :
        /\ pc[c] = "pairs"
        /\ StatusOf(eval_run[c][1]) = "running"
        /\ RunResults(eval_run[c][1], evaluation_results) # <<>>

(***************************************************************************)
(* C19: when test_case_ids is given, empty or not, every test case of the  *)
(* run has its id in it; when categories is given, every test case of the  *)
(* run has its category in it; and the call is rejected when no test case  *)
(* satisfies the restrictions given.                                       *)
(***************************************************************************)
C19_FiltersRestrict ==
    \A c \in Started :
        LET req == request[c][1]
            restricted == {t \in TestCase :
                /\ req.test_case_ids # None => t.id \in Range(req.test_case_ids[1])
                /\ req.categories # None => t.category \in Range(req.categories[1])}
        IN /\ req.test_case_ids # None =>
                 Range(test_cases[c]) \subseteq Range(req.test_case_ids[1])
           /\ req.categories # None =>
                 \A t \in Range(test_cases[c]) :
                     TestCaseById(t).category \in Range(req.categories[1])
           /\ restricted = {} => pc[c] = "raised" /\ StatusOf(eval_run[c][1]) = "failed"

\* The requested models that are active.
RequestedActive(c) ==
    {m.id : m \in {x \in LLMModel : x.id \in Range(request[c][1].model_ids) /\ x.is_active}}

(***************************************************************************)
(* C20: the models of a run are exactly the requested ids that are active: *)
(* no result or metrics row of the run names another model, every such     *)
(* model has result rows once the run has ended, and the call is rejected, *)
(* leaving the run without rows, when there is none.                       *)
(***************************************************************************)
C20_ModelsAreRequestedActive ==
    \A c \in Started :
        LET r == eval_run[c][1]
            active == RequestedActive(c)
        IN
        /\ Range(models[c]) = active
        /\ \A i \in DOMAIN evaluation_results :
              evaluation_results[i].evaluation_run_id = r =>
                  evaluation_results[i].model_id \in active
        /\ \A i \in MetricsOfRun(r) : performance_metrics[i].model_id \in active
        /\ c \in Finished => \A m \in active : ModelRows(r, m) # {}
        /\ active = {} =>
              /\ pc[c] = "raised" /\ StatusOf(r) = "failed"
              /\ RunResults(r, evaluation_results) = <<>> /\ MetricsOfRun(r) = {}

\* A call that asked for an inactive and an active model has returned with
\* rows of the active one, and a call that asked for an inactive model
\* only was rejected.
C20_Witness ==
    /\ \E c \in Finished :
          /\ pc[c] = "returned"
          /\ Range(request[c][1].model_ids) \ RequestedActive(c) # {}
          /\ RequestedActive(c) # {}
          /\ MetricsOfRun(eval_run[c][1]) # {}
    /\ \E c \in Rejected : RequestedActive(c) = {}

\* LLMProviderFactory.create_provider raises for a provider type it has no
\* class for, and _evaluate_single_case raises for a category that has no
\* evaluator: the two configuration errors of a pair.
UnknownProvider(model) == model.provider \notin RegisteredProviders
NoEvaluator(test_case) == test_case.category \notin evaluators
ConfigurationError(model, test_case) == UnknownProvider(model) \/ NoEvaluator(test_case)

\* The committed rows of a returned call's pair k.
CommittedOfPair(c, k) ==
    LET p == PairAt(c, k)
    IN {evaluation_results[i] : i \in RowsOfPair(eval_run[c][1], p.model.id, p.test_case.id)}

ZeroedFailure(row) ==
    /\ row.error_message # None
    /\ row.accuracy_score = 0
    /\ row.cost_usd = 0
    /\ row.tokens_used = 0
    /\ row.response_time_ms = 0

ConfigurationErrorsPersisted ==
    \A c \in Finished :
        /\ pc[c] = "returned" => StatusOf(eval_run[c][1]) = "completed"
        /\ \A k \in 1..PairsOf(c) :
              ConfigurationError(PairAt(c, k).model, PairAt(c, k).test_case) =>
                  /\ Cardinality(CommittedOfPair(c, k)) = 1
                  /\ Cardinality(RowsOfPair(eval_run[c][1], PairAt(c, k).model.id,
                                            PairAt(c, k).test_case.id)) = 1
                  /\ \A row \in CommittedOfPair(c, k) : ZeroedFailure(row)

(***************************************************************************)
(* C21: the attempt of a pair whose model has an unregistered provider     *)
(* type, or whose test case has a category without evaluator, adds exactly *)
(* one result to the run, a failed one with zero score, cost, tokens and   *)
(* latency; the run stays 'running' and goes on to the next pair or to the *)
(* aggregation; and once the call has left run_evaluation that row is the  *)
(* pair's only committed row, the run being 'completed' when the call      *)
(* returned.                                                               *)
(***************************************************************************)
C21_ConfigurationErrorIsolated ==
    [][ /\ \A c \in Calls :
             ( /\ pc[c] = "pairs"
               /\ all_results'[c] # all_results[c]
               /\ ConfigurationError(CurrentModel(c), CurrentTestCase(c)) ) =>
                 LET row == all_results'[c][Len(all_results'[c])] IN
                 /\ Len(all_results'[c]) = Len(all_results[c]) + 1
                 /\ SubSeq(all_results'[c], 1, Len(all_results[c])) = all_results[c]
                 /\ row.evaluation_run_id = eval_run[c][1]
                 /\ row.model_id = CurrentModel(c).id
                 /\ row.test_case_id = CurrentTestCase(c).id
                 /\ ZeroedFailure(row)
                 /\ pc'[c] = IF Len(all_results'[c]) = PairsOf(c) THEN "aggregate"
                             ELSE "pairs"
                 /\ evaluation_runs'[eval_run[c][1]].status = "running"
        /\ ConfigurationErrorsPersisted' ]_vars

\* A call has returned, its run completed, with a committed row of a pair
\* whose provider type is unregistered and one of a pair whose category has
\* no evaluator although its provider is registered.
C21_Witness ==
    \E c \in Finished :
        /\ pc[c] = "returned"
        /\ StatusOf(eval_run[c][1]) = "completed"
        /\ \E k \in 1..PairsOf(c) :
              /\ UnknownProvider(PairAt(c, k).model)
              /\ \E row \in CommittedOfPair(c, k) : ZeroedFailure(row)
        /\ \E k \in 1..PairsOf(c) :
              /\ ~UnknownProvider(PairAt(c, k).model)
              /\ NoEvaluator(PairAt(c, k).test_case)
              /\ \E row \in CommittedOfPair(c, k) : ZeroedFailure(row)

\* The measurements of the completion text a result row stores.
ContentOf(row) == CHOOSE content \in Contents : content.text = row.model_output

\* The provider call of the pair that made the row returned a completion.
ProviderSucceeded(model, row) ==
    ~UnknownProvider(model) /\ row.error_message # Some("API error")

(***************************************************************************)
(* C22: a pair on a 'qa' test case whose provider call succeeded is        *)
(* recorded as a successful result; without expected output its score is   *)
(* 0.7 when the response has more than 50 characters and no '?', else 0.5; *)
(* with an expected output it is 0.9, 0.75 or 0.6 by word overlap above    *)
(* 0.7, above 0.5, or not.  Violated: with expected_output None the scorer *)
(* raises and the pair is recorded as failed.                              *)
(***************************************************************************)
C22_QAWithoutExpectedIsHeuristic ==
    \A c \in Started \ Rejected : \A k \in DOMAIN all_results[c] :
        LET p == PairAt(c, k)
            row == all_results[c][k]
        IN (p.test_case.category = "qa" /\ ProviderSucceeded(p.model, row)) =>
              /\ row.error_message = None
              /\ LET content == ContentOf(row) IN
                 row.accuracy_score =
                    IF Truthy(p.test_case.expected_output)
                    THEN (IF content.overlap_expected > 70 THEN 90
                          ELSE IF content.overlap_expected > 50 THEN 75 ELSE 60)
                    ELSE (IF content.chars > 50 /\ ~content.qmark THEN 70 ELSE 50)

(***************************************************************************)
(* Unit level.  A second specification applies _extract_score and the two  *)
(* aggregation functions to inputs drawn from bounded sets, one input per  *)
(* behaviour: _generate_performance_metrics to the results a run has       *)
(* committed, and _calculate_rankings to a metrics table that holds the    *)
(* run's metrics, as a session that flushes before it queries shows them.  *)
(***************************************************************************)

\* str(e) of the exceptions the pair loop can catch: an exception raised
\* without arguments has the empty string.
ExceptionMessages == {"", "timed out"}

\* The rows one pair can leave in the run, its attempt raising any exception.
RowsOfAttempt(model_id, test_case_id) ==
    LET model == ModelById(model_id)
        test_case == TestCaseById(test_case_id)
    IN RowsPairCanProduce(1, model, test_case)
         \cup {error_result(1, model, test_case, m) : m \in ExceptionMessages}

\* Results of run 1 as the loop over three models and one test case leaves
\* them, and as the loop over one model and a test case of each of three
\* categories does.  A row of the handler is committed by the commit of a
\* later pair only, so a committed table does not end with one.
CommittedTables ==
    LET by_model == { <<a, b, c>> : a \in RowsOfAttempt(1, 3), b \in RowsOfAttempt(2, 3),
                                    c \in RowsOfAttempt(5, 3) }
        by_category ==
            UNION { { <<a, b, c>> : a \in RowsOfAttempt(m, t[1]), b \in RowsOfAttempt(m, t[2]),
                                    c \in RowsOfAttempt(m, t[3]) }
                    : m \in {1, 2}, t \in {4, 6} \X {1, 2} \X {3} }
    IN {<<>>} \cup {t \in by_model \cup by_category : ~FromHandler(t[Len(t)])}

\* Evaluation texts, each with what the regular expressions and substring
\* tests of _extract_score find in it: the number the first matching pattern
\* captures (ten times it, None when no pattern matches), whether "/10" and
\* "/100" occur in the text, and how many of the positive and the negative
\* keywords occur in it.
EvaluationTexts ==
    { [text |-> "Score: 8.5", form |-> "Score: v", number |-> Some(85),
       slash10 |-> FALSE, slash100 |-> FALSE, positive |-> 0, negative |-> 0],
      [text |-> "Score: 0.5", form |-> "Score: v", number |-> Some(5),
       slash10 |-> FALSE, slash100 |-> FALSE, positive |-> 0, negative |-> 0],
      [text |-> "Score: 10.0", form |-> "Score: v", number |-> Some(100),
       slash10 |-> FALSE, slash100 |-> FALSE, positive |-> 0, negative |-> 0],
      [text |-> "7/10", form |-> "v/10", number |-> Some(70),
       slash10 |-> TRUE, slash100 |-> FALSE, positive |-> 0, negative |-> 0],
      [text |-> "7 / 10", form |-> "v/10", number |-> Some(70),
       slash10 |-> FALSE, slash100 |-> FALSE, positive |-> 0, negative |-> 0],
      [text |-> "85/100", form |-> "v/100", number |-> Some(850),
       slash10 |-> TRUE, slash100 |-> TRUE, positive |-> 0, negative |-> 0],
      [text |-> "85 / 100", form |-> "v/100", number |-> Some(850),
       slash10 |-> FALSE, slash100 |-> FALSE, positive |-> 0, negative |-> 0],
      [text |-> "good and accurate", form |-> "words", number |-> None,
       slash10 |-> FALSE, slash100 |-> FALSE, positive |-> 2, negative |-> 0],
      [text |-> "incorrect", form |-> "words", number |-> None,
       slash10 |-> FALSE, slash100 |-> FALSE, positive |-> 1, negative |-> 1],
      [text |-> "poor", form |-> "words", number |-> None,
       slash10 |-> FALSE, slash100 |-> FALSE, positive |-> 0, negative |-> 1],
      [text |-> "no comment", form |-> "words", number |-> None,
       slash10 |-> FALSE, slash100 |-> FALSE, positive |-> 0, negative |-> 0] }

\* EvaluatorAgent._extract_score on any evaluation text, in hundredths.
_extract_score_of_text(evaluation_text) ==
    IF evaluation_text.number # None
    THEN LET score10 == evaluation_text.number[1] IN
         IF evaluation_text.slash10 THEN score10
         ELSE IF evaluation_text.slash100 THEN score10 \div 10
         ELSE _extract_score(score10)
    ELSE IF evaluation_text.positive > evaluation_text.negative THEN 75
    ELSE IF evaluation_text.negative > evaluation_text.positive THEN 35
    ELSE 55

InitUnit ==
    /\ evaluation_runs = <<[status |-> "running"]>>
    /\ evaluation_results \in CommittedTables
    /\ performance_metrics = <<>>
    /\ pc = [c \in Calls |-> "idle"]
    /\ request = [c \in Calls |-> None]
    /\ eval_run = [c \in Calls |-> None]
    /\ models = [c \in Calls |-> <<>>]
    /\ test_cases = [c \in Calls |-> <<>>]
    /\ all_results = [c \in Calls |-> <<>>]
    /\ session_new = [c \in Calls |-> <<>>]
    /\ extracted = None

UnitFrame ==
    UNCHANGED <<evaluation_runs, evaluation_results, pc, request, eval_run, models,
                test_cases, all_results, session_new>>

ExtractScore(evaluation_text) ==
    /\ evaluation_results = <<>>
    /\ extracted = None
    /\ extracted' = Some([evaluation_text |-> evaluation_text,
                          score |-> _extract_score_of_text(evaluation_text)])
    /\ UNCHANGED performance_metrics
    /\ UnitFrame

\* The models of the run, in id order.
ModelsOfTable(table) == SeqOfSet({table[i].model_id : i \in DOMAIN table})

GenerateMetrics ==
    /\ evaluation_results # <<>>
    /\ performance_metrics = <<>>
    /\ performance_metrics' =
          Flush(performance_metrics,
                _generate_performance_metrics(1, ModelsOfTable(evaluation_results),
                                              evaluation_results))
    /\ UNCHANGED extracted
    /\ UnitFrame

Ranked == performance_metrics # <<>> /\ performance_metrics[1].accuracy_rank # None

CalculateRankings ==
    /\ performance_metrics # <<>>
    /\ ~Ranked
    /\ performance_metrics' = _calculate_rankings(1, performance_metrics)
    /\ UNCHANGED extracted
    /\ UnitFrame

NextUnit ==
    \/ \E evaluation_text \in EvaluationTexts : ExtractScore(evaluation_text)
    \/ GenerateMetrics
    \/ CalculateRankings

SpecUnit == InitUnit /\ [][NextUnit]_vars

\* The result rows that carry a score given by the scorer of a category.
ScoredRows(category) ==
    {i \in DOMAIN evaluation_results :
        /\ CategoryOf(evaluation_results[i]) = category
        /\ evaluation_results[i].error_message = None}

(***************************************************************************)
(* C23: every accuracy_score of a result row, whatever scorer and model    *)
(* output it comes from, lies in [0, 1] (0..100 hundredths), and so does   *)
(* every avg_accuracy computed from them.                                  *)
(***************************************************************************)
C23_AccuracyScoreInUnitInterval ==
    /\ \A i \in DOMAIN evaluation_results :
          evaluation_results[i].accuracy_score \in 0..100
    /\ \A i \in DOMAIN performance_metrics :
          LET a == performance_metrics[i].avg_accuracy
          IN a.d > 0 /\ a.n >= 0 /\ a.n <= 100 * a.d

\* Metrics were generated from rows scored by each of the three scorers,
\* one of them with the highest score a scorer gives.
C23_Witness ==
    /\ performance_metrics # <<>>
    /\ \A category \in evaluators : ScoredRows(category) # {}
    /\ \E i \in ScoredRows("reasoning") : evaluation_results[i].accuracy_score = 100
    /\ \E i \in ScoredRows("qa") : evaluation_results[i].accuracy_score \in 1..99

\* What the claim states _extract_score returns, in hundredths.
NormalizedScore(evaluation_text) ==
    CASE evaluation_text.form = "Score: v" -> evaluation_text.number[1]
      [] evaluation_text.form = "v/10" -> evaluation_text.number[1]
      [] evaluation_text.form = "v/100" -> evaluation_text.number[1] \div 10
      [] evaluation_text.form = "words" ->
            IF evaluation_text.positive > evaluation_text.negative THEN 75
            ELSE IF evaluation_text.positive = evaluation_text.negative THEN 55
            ELSE 35

(***************************************************************************)
(* C24: _extract_score returns a value in [0, 1]: v/10 for a text          *)
(* 'Score: v' with v on the 0-10 scale and for 'v/10', v/100 for 'v/100',  *)
(* and 0.75, 0.55 or 0.35 by the keyword counts when the text holds no     *)
(* number.  Violated by '85/100' (8.5) and by 'Score: 0.5' (0.5).          *)
(***************************************************************************)
C24_ExtractScoreNormalizes ==
    extracted # None =>
        /\ extracted[1].score \in 0..100
        /\ extracted[1].score = NormalizedScore(extracted[1].evaluation_text)

\* The metrics rows of one category, in the order of the metrics list.
SameCategory(i) ==
    {j \in DOMAIN performance_metrics :
        performance_metrics[j].category = performance_metrics[i].category}

C28_HandlerRowsAreFailures ==
    \A i \in DOMAIN performance_metrics :
        LET g == performance_metrics[i]
            rows == RowsOfMetric(g)
            ok == {j \in rows : /\ ~FromHandler(evaluation_results[j])
                                /\ evaluation_results[j].error_message = None}
            n == Cardinality(ok)
        IN /\ RatEq(g.success_rate, Rat(n, Cardinality(rows)))
           /\ n > 0 =>
                /\ RatEq(g.avg_accuracy, Rat(SumOver(ok, "accuracy_score"), n))
                /\ RatEq(g.avg_response_time, Rat(SumOver(ok, "response_time_ms"), n))
                /\ g.total_cost = SumOver(ok, "cost_usd")

\* No attempt of the metrics row's group succeeded, and its averages and
\* cost are zero.
NoneSucceeded(g) ==
    /\ \A j \in RowsOfMetric(g) : Truthy(evaluation_results[j].error_message)
    /\ g.avg_accuracy.n = 0 /\ g.avg_response_time.n = 0 /\ g.total_cost = 0

\* The metrics row's group has a successful result with positive accuracy,
\* latency and cost.
SomeSucceeded(g) ==
    \E j \in RowsOfMetric(g) :
        /\ evaluation_results[j].error_message = None
        /\ evaluation_results[j].accuracy_score > 0
        /\ evaluation_results[j].response_time_ms > 0
        /\ evaluation_results[j].cost_usd > 0

VisibleMetrics(table, r) == SelectSeq(table, LAMBDA g : g.evaluation_run_id = r)

\* The (model, category) groups a batch must cover: those of the result
\* rows the aggregation read, and "overall" for each of their models.
GroupsRead(r) ==
    LET results == RunResults(r, evaluation_results)
    IN {<<results[i].model_id, CategoryOf(results[i])>> : i \in DOMAIN results}
         \cup {<<results[i].model_id, "overall">> : i \in DOMAIN results}

(***************************************************************************)
(* C25: at every step, the metrics rows of a run that a reader sees are    *)
(* left as they are if there are any; when they appear they appear all at  *)
(* once, one row per group the aggregation read and one "overall" row per  *)
(* model, in the step of the run's call that ends its aggregation, its     *)
(* pairs all attempted and their rows all visible; and no row of the       *)
(* metrics table is ever changed or removed.                               *)
(***************************************************************************)
C25_MetricsAppearOnceAndWhole ==
    [][ /\ SubSeq(performance_metrics', 1, Len(performance_metrics)) = performance_metrics
        /\ \A r \in DOMAIN evaluation_runs' :
             LET before == VisibleMetrics(performance_metrics, r)
                 after == VisibleMetrics(performance_metrics', r)
             IN /\ before # <<>> => after = before
                /\ (before = <<>> /\ after # <<>>) =>
                     \E c \in Calls :
                        /\ eval_run[c] = Some(r)
                        /\ pc[c] = "aggregate" /\ pc'[c] \in {"returned", "raised"}
                        /\ Len(all_results[c]) = PairsOf(c)
                        /\ RunResults(r, evaluation_results') = all_results[c]
                        /\ {<<after[i].model_id, after[i].category>> : i \in DOMAIN after}
                              = GroupsRead(r)
                        /\ Len(after) = Cardinality(GroupsRead(r)) ]_vars

\* Two runs have their metrics visible, the later run's batch written
\* after the earlier one's, and one of the batches has several rows.
C25_Witness ==
    \E r1, r2 \in RunIds :
        /\ r1 < r2
        /\ Cardinality(MetricsOfRun(r1)) >= 2
        /\ MetricsOfRun(r2) # {}
        /\ \A i \in MetricsOfRun(r1), j \in MetricsOfRun(r2) : i < j

(***************************************************************************)
(* C27: in a completed run every resolved model has exactly one "overall"  *)
(* metrics row and exactly one row for each category of the run's test     *)
(* cases.  Violated: the rows the handler added after the last successful  *)
(* pair are not read by the aggregation.                                   *)
(***************************************************************************)
C27_EveryModelHasItsMetrics ==
    \A c \in Finished :
        LET r == eval_run[c][1]
            rows(m, category) == {i \in MetricsOfRun(r) :
                                    /\ performance_metrics[i].model_id = m
                                    /\ performance_metrics[i].category = category}
        IN StatusOf(r) = "completed" =>
              \A k \in DOMAIN models[c] :
                  /\ Cardinality(rows(models[c][k], "overall")) = 1
                  /\ \A j \in DOMAIN test_cases[c] :
                        Cardinality(rows(models[c][k],
                                         TestCaseById(test_cases[c][j]).category)) = 1

(***************************************************************************)
(* Progress.  run_evaluation is a coroutine: the event loop resumes it     *)
(* whenever the call it awaits has returned, and between awaits it runs to *)
(* the next one.  A call that is in the pair loop or at the aggregation    *)
(* therefore takes its next step, provided every provider call and every   *)
(* database operation returns or raises.  Nothing obliges a caller to      *)
(* start a run.                                                            *)
(***************************************************************************)
Resume(c) == EvaluatePair(c) \/ Aggregate(c) \/ AggregateFails(c)

\* Progress depends on the path a call takes, not on the data: one request
\* for each path.  In order: pairs that succeed or come back with a provider
\* error; a successful pair followed by one that raises; only pairs that
\* raise; a request the validation rejects.
LiveRequests ==
    { [model_ids |-> <<1, 2>>, test_case_ids |-> Some(<<3>>), categories |-> None],
      [model_ids |-> <<2>>, test_case_ids |-> Some(<<1, 2>>), categories |-> None],
      [model_ids |-> <<2, 3>>, test_case_ids |-> Some(<<>>),
         categories |-> Some(<<"coding">>)],
      [model_ids |-> <<4>>, test_case_ids |-> None, categories |-> None] }

LiveNext ==
    \/ \E c \in Calls, req \in LiveRequests : StartRun(c, req)
    \/ \E c \in Calls : Resume(c)

LiveSpec == Init /\ [][LiveNext]_vars /\ \A c \in Calls : WF_vars(Resume(c))

TerminalStatus(r) == r \in RunIds /\ StatusOf(r) \in {"completed", "failed"}

(***************************************************************************)
(* C30: every run whose row was created eventually has status 'completed'  *)
(* or 'failed', and no call has left run_evaluation, by return or by       *)
(* exception, with its run row still 'running'.                            *)
(***************************************************************************)
C30_RunsReachTerminalStatus ==
    /\ []<>(\A r \in RunIds : TerminalStatus(r))
    /\ [](\A c \in Calls : pc[c] \in {"returned", "raised"} => TerminalStatus(eval_run[c][1]))

\* Every call was made; one went through its pairs and returned with its
\* run 'completed', another had its aggregation raise and left its run
\* 'failed'.
C30_Witness ==
    /\ \A c \in Calls : pc[c] \in {"returned", "raised"}
    /\ \E c \in Finished : pc[c] = "returned" /\ StatusOf(eval_run[c][1]) = "completed"
    /\ \E c \in Finished : pc[c] = "raised" /\ StatusOf(eval_run[c][1]) = "failed"
    /\ RunIds = 1..MaxRuns

====
